---- MODULE Spec2Model ----
(***************************************************************************)
(* Model of the pooled scheduler of hexabiz-ai-layer.js                    *)
(* (src/oscillation-layer/oscillation-layer.js): startup readiness probing *)
(* (waitForRunner / startServer), admission (processRequest) and the       *)
(* runner call with its completion handoff (sendToRunner).                 *)
(*                                                                         *)
(* Node runs the program on one thread: every action below is the code     *)
(* executed between two suspension points (an awaited fetch, body read,    *)
(* sleep, or the promise continuation that hands a result to the caller).  *)
(***************************************************************************)
EXTENDS Integers, Sequences, FiniteSets, TLC

\* ---------------------------------------------------------------------
\* Bounds of the model
\* ---------------------------------------------------------------------
NumRunners == 2      \* largest number of entries of OLLAMA_RUNNERS explored
MaxReq == 3          \* submissions made during one run
MaxCap == 2          \* largest configured MAX_QUEUE_SIZE explored
MaxLimit == 1        \* largest configured MAX_REQUESTS_PER_WINDOW explored
MaxTicks == 2        \* clock advances explored, each of RATE_LIMIT_WINDOW_MS

\* ---------------------------------------------------------------------
\* Program constants
\* ---------------------------------------------------------------------
RETRIES == 60
DELAY_MS == 3000
MODEL_NAME == "gemma:2b"
RATE_LIMIT_WINDOW_MS == 60000
OSCILLATION_LAYER_API_KEY == "secret"

Req == 1..MaxReq

\* Inputs drawn from the environment (the runners' answers)
ModelIds == {MODEL_NAME, "gemma:2b-instruct"}
Statuses == {200, 404, 500}
Bodies == {"model not loaded", "out of memory"}

VARIABLES
  phase,          \* "startup" | "serving" | "exited" (process.exit(1))
  probeRunner,    \* runner startServer is waiting for (index in RUNNERS)
  i,              \* loop counter of waitForRunner
  probePc,        \* "fetch" | "json" | "sleep" | "done": where waitForRunner is suspended
  healthRes,      \* health response being read
  healthCalls,    \* health calls issued by the current waitForRunner invocation
  gapMs,          \* time slept between the previous health call and the pending one
  passed,         \* runners for which waitForRunner returned true
  RUNNERS,        \* configured runners, as their indices in registration order
  MAX_QUEUE_SIZE, \* configured capacity
  busy,           \* RUNNERS[k].busy
  requestQueue,   \* queued entries, identified by their request
  nextReq,        \* next submission (requests are numbered in arrival order)
  reqPc,          \* per request: "new" | "queued" | "fetch" | "text" | "json" | "returned" | "resolved" | "rejected"
  reqRunner,      \* runner whose sendToRunner call carries the request (0: none)
  resp,           \* response the runner gave to the request's call
  result,         \* value or error of the request's promise
  path,           \* how processRequest treated the request: "none" | "direct" | "queued" | "refused"
  sent,           \* number of sendToRunner calls made for the request
  resolves,       \* times the caller's promise was resolved
  rejects,        \* times the caller's promise was rejected
  startedOnBusy,  \* some sendToRunner call found runner.busy already true
  rateLimits,     \* rateLimits[phone] = { count, windowStart }, defined for the phones seen
  now,            \* Date.now()
  MAX_REQUESTS_PER_WINDOW, \* configured limit
  granted,        \* per phone: calls of checkRateLimit that returned true since windowStart was set
  lastAsk,        \* what the last /ask or /ask/json request offered and the gate's answer
  oPhase,         \* single-runner variant: "startup" | "listening" | "exited"
  oPc,            \* where waitForOllama is suspended: "fetch" | "json" | "done"
  oRes,           \* health response waitForOllama is reading
  oCalls,         \* health calls waitForOllama has issued
  oExit,          \* why the process exited: "none" | "unreachable" | "nomodel"
  oNext,          \* next /ask request of the single-runner variant
  oReqPc,         \* per /ask request: "new" | "fetch" | "json" | "done"
  oResp,          \* Ollama's answer to the request
  oReply          \* HTTP status sent to the client (0: none yet)

probeVars == <<probeRunner, i, probePc, healthRes, healthCalls, gapMs, passed>>
poolVars == <<busy, requestQueue, nextReq, reqPc, reqRunner, resp, result, path, sent,
              resolves, rejects, startedOnBusy>>
configVars == <<RUNNERS, MAX_QUEUE_SIZE>>
gateVars == <<rateLimits, now, MAX_REQUESTS_PER_WINDOW, granted, lastAsk>>
ollamaVars == <<oPhase, oPc, oRes, oCalls, oExit, oNext, oReqPc, oResp, oReply>>
vars == <<phase, probeVars, configVars, gateVars, ollamaVars, poolVars>>

\* ---------------------------------------------------------------------
\* Values
\* ---------------------------------------------------------------------
NoHealthRes == [ok |-> FALSE, parse |-> "none", data |-> {}]
HealthBodies == {[parse |-> "invalid", data |-> {}], [parse |-> "nodata", data |-> {}]}
                  \cup {[parse |-> "list", data |-> d] : d \in SUBSET ModelIds}

\* x-phone headers ("" stands for a missing or empty header) and the keys they map to
PhoneHeaders == {"", "0300"}
Phones == {"anonymous", "0300"}
\* authorization headers, split at " "
AuthHeaders == {<<>>, <<"Bearer", "secret">>, <<"Bearer", "wrong">>}
\* request bodies: the contents of messages, and prompt ("absent" when the field is missing)
AskBodies == {[messages |-> <<>>, prompt |-> "absent"],
              [messages |-> <<"hi">>, prompt |-> "absent"],
              [messages |-> <<"hi">>, prompt |-> ""],
              [messages |-> <<>>, prompt |-> "sum"]}
Endpoints == {"chat", "json"}

NoAsk == [authorized |-> FALSE, valid |-> FALSE, status |-> -1]
NoLimits == [p \in {} |-> [count |-> 0, windowStart |-> 0]]

NoResp == [status |-> 0, body |-> ""]
NoResult == [kind |-> "none", message |-> <<>>, source |-> "", data |-> ""]

DigitChars == <<"0", "1", "2", "3", "4", "5", "6", "7", "8", "9">>

RECURSIVE Digits(_)
\* decimal rendering of a number inside a template string
Digits(n) == IF n < 10 THEN <<DigitChars[n + 1]>>
             ELSE Digits(n \div 10) \o <<DigitChars[(n % 10) + 1]>>

\* response.ok / res.ok
Ok(status) == status >= 200 /\ status <= 299

ErrorOf(message) == [kind |-> "error", message |-> message, source |-> "", data |-> ""]

QueueFullError == ErrorOf(<<"Server busy. Request queue full.">>)
TransportError == ErrorOf(<<"request to runner failed">>)
BodyError == ErrorOf(<<"invalid response body">>)

StatusErrorNoStatus(status) == ErrorOf(<<"OrdeXa-AI runner returned an error">>)
\* new Error(`OrdeXa-AI runner returned ${response.status}`)
StatusError(status) == ErrorOf(<<"OrdeXa-AI runner returned ">> \o Digits(status))

\* { source: "OrdeXa-AI", data }
Success(data) == [kind |-> "value", message |-> <<>>, source |-> "OrdeXa-AI", data |-> data]

\* ---------------------------------------------------------------------
\* Readiness probing: waitForRunner, driven by startServer
\* ---------------------------------------------------------------------
ModelListedAny(res) == res.parse = "list" /\ res.data # {}
\* result.data?.some(m => m.id === MODEL_NAME)
ModelListed(res) == res.parse = "list" /\ MODEL_NAME \in res.data

Init ==
  /\ phase = "startup"
  /\ probeRunner = 1
  /\ i = 0
  /\ probePc = "fetch"
  /\ healthRes = NoHealthRes
  /\ healthCalls = 1
  /\ gapMs = 0
  /\ passed = {}
  /\ MAX_QUEUE_SIZE \in 0..MaxCap
  /\ \E n \in 1..NumRunners :
       /\ RUNNERS = 1..n
       /\ busy = [k \in 1..n |-> FALSE]
  /\ requestQueue = <<>>
  /\ nextReq = 1
  /\ reqPc = [r \in Req |-> "new"]
  /\ reqRunner = [r \in Req |-> 0]
  /\ resp = [r \in Req |-> NoResp]
  /\ result = [r \in Req |-> NoResult]
  /\ path = [r \in Req |-> "none"]
  /\ sent = [r \in Req |-> 0]
  /\ resolves = [r \in Req |-> 0]
  /\ rejects = [r \in Req |-> 0]
  /\ startedOnBusy = FALSE
  /\ rateLimits = NoLimits
  /\ now = 0
  /\ MAX_REQUESTS_PER_WINDOW = 5
  /\ granted = [p \in Phones |-> 0]
  /\ lastAsk = NoAsk
  /\ oPhase = "startup"
  /\ oPc = "fetch"
  /\ oRes = NoHealthRes
  /\ oCalls = 1
  /\ oExit = "none"
  /\ oNext = 1
  /\ oReqPc = [r \in Req |-> "new"]
  /\ oResp = [r \in Req |-> NoResp]
  /\ oReply = [r \in Req |-> 0]

NextAttemptNoExit(slept) ==
  IF i + 1 < RETRIES
  THEN /\ i' = i + 1
       /\ probePc' = "fetch"
       /\ healthCalls' = healthCalls + 1
       /\ gapMs' = slept
       /\ phase' = phase
       /\ UNCHANGED <<probeRunner, passed>>
  ELSE /\ phase' = IF probeRunner < Cardinality(RUNNERS) THEN "startup" ELSE "serving"
       /\ probePc' = IF probeRunner < Cardinality(RUNNERS) THEN "fetch" ELSE "done"
       /\ probeRunner' = IF probeRunner < Cardinality(RUNNERS) THEN probeRunner + 1 ELSE probeRunner
       /\ i' = 0
       /\ healthCalls' = IF probeRunner < Cardinality(RUNNERS) THEN 1 ELSE 0
       /\ gapMs' = 0
       /\ UNCHANGED passed

\* the loop of waitForRunner moves to its next iteration after having slept `slept` ms:
\* either the next health call is issued or the budget is exhausted and the process exits
NextAttempt(slept) ==
  IF i + 1 < RETRIES
  THEN /\ i' = i + 1
       /\ probePc' = "fetch"
       /\ healthCalls' = healthCalls + 1
       /\ gapMs' = slept
       /\ phase' = phase
       /\ UNCHANGED <<probeRunner, passed>>
  ELSE /\ phase' = "exited"
       /\ probePc' = "done"
       /\ i' = i + 1
       /\ UNCHANGED <<probeRunner, healthCalls, gapMs, passed>>

\* waitForRunner returned true: startServer goes on with the next runner, or starts listening
RunnerReady ==
  /\ passed' = passed \cup {probeRunner}
  /\ IF probeRunner < Cardinality(RUNNERS)
     THEN /\ probeRunner' = probeRunner + 1
          /\ i' = 0
          /\ probePc' = "fetch"
          /\ healthCalls' = 1
          /\ gapMs' = 0
          /\ phase' = phase
     ELSE /\ phase' = "serving"
          /\ probePc' = "done"
          /\ i' = 0
          /\ healthCalls' = 0
          /\ gapMs' = 0
          /\ probeRunner' = probeRunner

\* the health fetch throws (transport failure): catch block, then sleep
HealthFetchFail ==
  /\ phase = "startup" /\ probePc = "fetch"
  /\ probePc' = "sleep"
  /\ UNCHANGED <<phase, probeRunner, i, healthRes, healthCalls, gapMs, passed,
                 configVars, gateVars, ollamaVars, poolVars>>

\* the health fetch answers: a non-ok answer throws into the catch block,
\* an ok answer goes on to read the body
HealthFetchRespond ==
  /\ phase = "startup" /\ probePc = "fetch"
  /\ \E ok \in BOOLEAN, b \in HealthBodies :
       IF ~ok
       THEN /\ probePc' = "sleep"
            /\ healthRes' = NoHealthRes
       ELSE /\ probePc' = "json"
            /\ healthRes' = [ok |-> TRUE, parse |-> b.parse, data |-> b.data]
  /\ UNCHANGED <<phase, probeRunner, i, healthCalls, gapMs, passed,
                 configVars, gateVars, ollamaVars, poolVars>>

\* res.json() settles
HealthJsonDone ==
  /\ phase = "startup" /\ probePc = "json"
  /\ healthRes' = NoHealthRes
  /\ IF healthRes.parse = "invalid"
     THEN /\ probePc' = "sleep"
          /\ UNCHANGED <<phase, probeRunner, i, healthCalls, gapMs, passed>>
     ELSE IF ModelListed(healthRes)
          THEN RunnerReady
          ELSE NextAttempt(0)
  /\ UNCHANGED <<configVars, gateVars, ollamaVars, poolVars>>

\* sleep(DELAY_MS) of the catch block elapses
SleepDone ==
  /\ phase = "startup" /\ probePc = "sleep"
  /\ NextAttempt(DELAY_MS)
  /\ UNCHANGED <<healthRes, configVars, gateVars, ollamaVars, poolVars>>

\* ---------------------------------------------------------------------
\* Runner pool and admission queue
\* ---------------------------------------------------------------------
InFlightPcs == {"fetch", "text", "json"}

\* sendToRunner calls that have started and not yet left their finally block, per runner
InFlight(k) == {r \in Req : reqPc[r] \in InFlightPcs /\ reqRunner[r] = k}

FirstOf(S) == CHOOSE k \in S : \A j \in S : k <= j


FindAnyRunner(b) == FirstOf(RUNNERS)
FindOnlyFirst(b) == IF ~b[FirstOf(RUNNERS)] THEN FirstOf(RUNNERS) ELSE 0
FindLast(b) == IF {k \in RUNNERS : ~b[k]} = {} THEN 0 ELSE CHOOSE k \in {j \in RUNNERS : ~b[j]} : \A j \in {n \in RUNNERS : ~b[n]} : k >= j
\* RUNNERS.find(r => !r.busy); 0 stands for undefined
Find(b) == IF {k \in RUNNERS : ~b[k]} = {} THEN 0 ELSE FirstOf({k \in RUNNERS : ~b[k]})

MarkBusySkipped(b, k) == b
\* runner.busy = true
MarkBusy(b, k) == [b EXCEPT ![k] = TRUE]

MarkIdleSkipped(b, k) == b
\* runner.busy = false
MarkIdle(b, k) == [b EXCEPT ![k] = FALSE]

QueueIsFullOffByOne(q, cap) == Len(q) > cap
QueueIsFullAlways(q, cap) == TRUE
\* requestQueue.length >= MAX_QUEUE_SIZE
QueueIsFull(q, cap) == Len(q) >= cap

HasWaitingNever(q) == FALSE
HasWaitingOffByOne(q) == Len(q) > 1
\* requestQueue.length > 0
HasWaiting(q) == Len(q) > 0

ShiftIsPop(q) == [next |-> q[Len(q)], rest |-> SubSeq(q, 1, Len(q) - 1)]
ShiftKeepsHead(q) == [next |-> Head(q), rest |-> q]
ShiftClears(q) == [next |-> Head(q), rest |-> <<>>]
\* requestQueue.shift()
Shift(q) == [next |-> Head(q), rest |-> Tail(q)]

HandoffRunnerFirst(k) == FirstOf(RUNNERS)
\* next.runner ?? runner: queue entries are pushed without a runner field, so the
\* runner that has just been released is the one handed the next request
HandoffRunner(k) == k

\* Promise continuations are microtasks: once a promise has settled, the continuation that
\* hands it to the caller runs before the event loop takes the next I/O callback
\* (an arriving submission, a fetch or body read that settles).
NoDeliveryPending == \A r \in Req : reqPc[r] # "returned"

\* processRequest(ollamaRequest, endpointType) for the next arriving submission:
\* its effect on the pool
Admit ==
  /\ phase = "serving"
  /\ NoDeliveryPending
  /\ nextReq <= MaxReq
  /\ LET r == nextReq
         freeRunner == Find(busy)
     IN /\ nextReq' = nextReq + 1
        /\ IF freeRunner # 0
           THEN \* sendToRunner runs up to its awaited fetch
                /\ startedOnBusy' = (startedOnBusy \/ busy[freeRunner])
                /\ busy' = MarkBusy(busy, freeRunner)
                /\ reqPc' = [reqPc EXCEPT ![r] = "fetch"]
                /\ reqRunner' = [reqRunner EXCEPT ![r] = freeRunner]
                /\ sent' = [sent EXCEPT ![r] = @ + 1]
                /\ path' = [path EXCEPT ![r] = "direct"]
                /\ UNCHANGED <<requestQueue, result>>
           ELSE IF QueueIsFull(requestQueue, MAX_QUEUE_SIZE)
           THEN /\ reqPc' = [reqPc EXCEPT ![r] = "returned"]
                /\ result' = [result EXCEPT ![r] = QueueFullError]
                /\ path' = [path EXCEPT ![r] = "refused"]
                /\ UNCHANGED <<busy, reqRunner, sent, requestQueue, startedOnBusy>>
           ELSE /\ requestQueue' = Append(requestQueue, r)
                /\ reqPc' = [reqPc EXCEPT ![r] = "queued"]
                /\ path' = [path EXCEPT ![r] = "queued"]
                /\ UNCHANGED <<busy, reqRunner, sent, result, startedOnBusy>>
  /\ UNCHANGED <<phase, probeVars, configVars, ollamaVars, resp, resolves, rejects>>

\* processRequest called for a request that the gates of its route have let through
ProcessRequest == Admit /\ UNCHANGED gateVars

\* the end of a sendToRunner call for request r: its promise settles with res and the
\* finally block releases the runner and hands it the head of the queue, if any
Finally(r, res) ==
  LET k == reqRunner[r]
      b1 == MarkIdle(busy, k)
  IN /\ result' = [result EXCEPT ![r] = res]
     /\ resp' = [resp EXCEPT ![r] = NoResp]
     /\ IF HasWaiting(requestQueue)
        THEN LET s == Shift(requestQueue)
                 next == s.next
                 to == HandoffRunner(k)
             IN /\ requestQueue' = s.rest
                /\ startedOnBusy' = (startedOnBusy \/ b1[to])
                /\ busy' = MarkBusy(b1, to)
                /\ reqPc' = [[reqPc EXCEPT ![r] = "returned"] EXCEPT ![next] = "fetch"]
                /\ reqRunner' = [[reqRunner EXCEPT ![r] = 0] EXCEPT ![next] = to]
                /\ sent' = [sent EXCEPT ![next] = @ + 1]
        ELSE /\ busy' = b1
             /\ reqPc' = [reqPc EXCEPT ![r] = "returned"]
             /\ reqRunner' = [reqRunner EXCEPT ![r] = 0]
             /\ UNCHANGED <<requestQueue, startedOnBusy, sent>>

\* the call's fetch throws (transport failure)
FetchFail(r) ==
  /\ reqPc[r] = "fetch"
  /\ NoDeliveryPending
  /\ Finally(r, TransportError)
  /\ UNCHANGED <<phase, probeVars, configVars, gateVars, ollamaVars, nextReq, path, resolves, rejects>>

\* the runner answers the call: the body is read as text (not ok) or as json (ok)
FetchRespond(r) ==
  /\ reqPc[r] = "fetch"
  /\ NoDeliveryPending
  /\ \E status \in Statuses, body \in Bodies :
       /\ resp' = [resp EXCEPT ![r] = [status |-> status, body |-> body]]
       /\ reqPc' = [reqPc EXCEPT ![r] = IF Ok(status) THEN "json" ELSE "text"]
  /\ UNCHANGED <<phase, probeVars, configVars, gateVars, ollamaVars, busy, requestQueue, nextReq, reqRunner,
                 result, path, sent, resolves, rejects, startedOnBusy>>

\* response.text() of a not-ok answer settles: the body is logged and the status thrown,
\* or the read itself throws
TextDone(r) ==
  /\ reqPc[r] = "text"
  /\ NoDeliveryPending
  /\ \E readable \in BOOLEAN :
       Finally(r, IF readable THEN StatusError(resp[r].status) ELSE BodyError)
  /\ UNCHANGED <<phase, probeVars, configVars, gateVars, ollamaVars, nextReq, path, resolves, rejects>>

\* response.json() of an ok answer settles
JsonDone(r) ==
  /\ reqPc[r] = "json"
  /\ NoDeliveryPending
  /\ \E readable \in BOOLEAN :
       Finally(r, IF readable THEN Success(resp[r].body) ELSE BodyError)
  /\ UNCHANGED <<phase, probeVars, configVars, gateVars, ollamaVars, nextReq, path, resolves, rejects>>

\* the continuation that hands the settled promise to the caller: the promise returned by
\* processRequest on the direct path, .then(next.resolve).catch(next.reject) on the queued path
Deliver(r) ==
  /\ reqPc[r] = "returned"
  /\ IF result[r].kind = "value"
     THEN /\ reqPc' = [reqPc EXCEPT ![r] = "resolved"]
          /\ resolves' = [resolves EXCEPT ![r] = @ + 1]
          /\ UNCHANGED rejects
     ELSE /\ reqPc' = [reqPc EXCEPT ![r] = "rejected"]
          /\ rejects' = [rejects EXCEPT ![r] = @ + 1]
          /\ UNCHANGED resolves
  /\ result' = [result EXCEPT ![r] = NoResult]
  /\ UNCHANGED <<phase, probeVars, configVars, gateVars, ollamaVars, busy, requestQueue, nextReq, reqRunner,
                 resp, path, sent, startedOnBusy>>

Next ==
  \/ HealthFetchFail
  \/ HealthFetchRespond
  \/ HealthJsonDone
  \/ SleepDone
  \/ ProcessRequest
  \/ \E r \in Req : FetchFail(r)
  \/ \E r \in Req : FetchRespond(r)
  \/ \E r \in Req : TextDone(r)
  \/ \E r \in Req : JsonDone(r)
  \/ \E r \in Req : Deliver(r)

Spec == Init /\ [][Next]_vars

\* every started runner call eventually completes, and promise continuations run
CallCompletes(r) == FetchFail(r) \/ FetchRespond(r) \/ TextDone(r) \/ JsonDone(r)

FairSpec ==
  /\ Spec
  /\ WF_vars(\E r \in Req : CallCompletes(r) \/ Deliver(r))

TypeOK ==
  /\ phase \in {"startup", "serving", "exited"}
  /\ RUNNERS \subseteq 1..NumRunners
  /\ busy \in [RUNNERS -> BOOLEAN]
  /\ nextReq \in 1..(MaxReq + 1)
  /\ MAX_QUEUE_SIZE \in 0..MaxCap

\* ---------------------------------------------------------------------
\* Request gateway: rate limiting, authorization and validation of /ask and /ask/json
\* ---------------------------------------------------------------------
\* req.headers["x-phone"] || "anonymous"
PhoneOfHeader(h) == IF h = "" THEN "anonymous" ELSE h

\* checkRateLimit(phone) at time t: the value returned and the table it leaves
CheckRateLimit(rl, phoneArg, t, max) ==
  LET phone == IF phoneArg = "" THEN "anonymous" ELSE phoneArg
      Put(e) == [p \in DOMAIN rl \cup {phone} |-> IF p = phone THEN e ELSE rl[p]]
  IN IF phone \notin DOMAIN rl
     THEN [ok |-> TRUE, rl |-> Put([count |-> 1, windowStart |-> t])]
     ELSE IF t - rl[phone].windowStart > RATE_LIMIT_WINDOW_MS
     THEN [ok |-> TRUE, rl |-> Put([count |-> 1, windowStart |-> t])]
     ELSE IF rl[phone].count >= max
     THEN [ok |-> FALSE, rl |-> rl]
     ELSE [ok |-> TRUE, rl |-> Put([count |-> rl[phone].count + 1,
                                    windowStart |-> rl[phone].windowStart])]

\* true returns counted per window: a call that sets windowStart opens a new window
Granted(g, rl, out, phone) ==
  IF ~out.ok THEN g
  ELSE IF phone \notin DOMAIN rl THEN [g EXCEPT ![phone] = 1]
  ELSE IF out.rl[phone].windowStart # rl[phone].windowStart THEN [g EXCEPT ![phone] = 1]
  ELSE [g EXCEPT ![phone] = @ + 1]

\* clientAuth = authorization?.split(" ")[1]; clientAuth && clientAuth === the configured key
Authorized(a) == Len(a) >= 2 /\ a[2] # "" /\ a[2] = OSCILLATION_LAYER_API_KEY

\* /ask: messages must be a non-empty array;
\* /ask/json: body.prompt ?? body.messages?.[0]?.content must be truthy
ValidBody(e, b) ==
  IF e = "chat"
  THEN Len(b.messages) > 0
  ELSE LET prompt == IF b.prompt # "absent" THEN b.prompt
                     ELSE IF Len(b.messages) > 0 THEN b.messages[1] ELSE ""
       IN prompt # ""

GateStatusValidationFirst(rateOk, authOk, validOk) ==
  IF ~rateOk THEN 429 ELSE IF ~validOk THEN 400 ELSE IF ~authOk THEN 401 ELSE 0
\* the status the route answers with before calling processRequest (0: it calls processRequest)
GateStatus(rateOk, authOk, validOk) ==
  IF ~rateOk THEN 429 ELSE IF ~authOk THEN 401 ELSE IF ~validOk THEN 400 ELSE 0

\* app.post("/ask") and app.post("/ask/json"), up to the await of processRequest
Ask(h, a, e, b) ==
  /\ phase = "serving"
  /\ NoDeliveryPending
  /\ nextReq <= MaxReq
  /\ LET phone == PhoneOfHeader(h)
         out == CheckRateLimit(rateLimits, phone, now, MAX_REQUESTS_PER_WINDOW)
         status == GateStatus(out.ok, Authorized(a), ValidBody(e, b))
     IN /\ rateLimits' = out.rl
        /\ granted' = Granted(granted, rateLimits, out, phone)
        /\ lastAsk' = [authorized |-> Authorized(a), valid |-> ValidBody(e, b),
                       status |-> status]
        /\ UNCHANGED <<now, MAX_REQUESTS_PER_WINDOW>>
        /\ IF status = 0
           THEN Admit
           ELSE /\ nextReq' = nextReq + 1
                /\ reqPc' = [reqPc EXCEPT ![nextReq] = "gated"]
                /\ path' = [path EXCEPT ![nextReq] = "gated"]
                /\ UNCHANGED <<phase, probeVars, configVars, ollamaVars, busy, requestQueue,
                               reqRunner, resp, result, sent, resolves, rejects,
                               startedOnBusy>>

\* the clock advances
Tick ==
  /\ phase = "serving"
  /\ now < MaxTicks * RATE_LIMIT_WINDOW_MS
  /\ now' = now + RATE_LIMIT_WINDOW_MS
  /\ UNCHANGED <<phase, probeVars, configVars, ollamaVars, poolVars,
                 rateLimits, MAX_REQUESTS_PER_WINDOW, granted, lastAsk>>

\* the server listens (the runner has passed waitForRunner), nothing has been asked yet;
\* the pool is the one-runner, capacity-one configuration, the limit is any of 0..MaxLimit
GateInit ==
  /\ phase = "serving"
  /\ MAX_QUEUE_SIZE = 1
  /\ RUNNERS = {1}
  /\ busy = [k \in {1} |-> FALSE]
  /\ passed = {1}
  /\ probeRunner = 1
  /\ i = 0
  /\ probePc = "done"
  /\ healthRes = NoHealthRes
  /\ healthCalls = 0
  /\ gapMs = 0
  /\ requestQueue = <<>>
  /\ nextReq = 1
  /\ reqPc = [r \in Req |-> "new"]
  /\ reqRunner = [r \in Req |-> 0]
  /\ resp = [r \in Req |-> NoResp]
  /\ result = [r \in Req |-> NoResult]
  /\ path = [r \in Req |-> "none"]
  /\ sent = [r \in Req |-> 0]
  /\ resolves = [r \in Req |-> 0]
  /\ rejects = [r \in Req |-> 0]
  /\ startedOnBusy = FALSE
  /\ rateLimits = NoLimits
  /\ now = 0
  /\ MAX_REQUESTS_PER_WINDOW \in 0..MaxLimit
  /\ granted = [p \in Phones |-> 0]
  /\ lastAsk = NoAsk
  /\ oPhase = "startup"
  /\ oPc = "fetch"
  /\ oRes = NoHealthRes
  /\ oCalls = 1
  /\ oExit = "none"
  /\ oNext = 1
  /\ oReqPc = [r \in Req |-> "new"]
  /\ oResp = [r \in Req |-> NoResp]
  /\ oReply = [r \in Req |-> 0]

GateNext ==
  \/ \E h \in PhoneHeaders, a \in AuthHeaders, e \in Endpoints, b \in AskBodies : Ask(h, a, e, b)
  \/ Tick
  \/ \E r \in Req : FetchFail(r)
  \/ \E r \in Req : FetchRespond(r)
  \/ \E r \in Req : TextDone(r)
  \/ \E r \in Req : JsonDone(r)
  \/ \E r \in Req : Deliver(r)

GateSpec == GateInit /\ [][GateNext]_vars

\* ---------------------------------------------------------------------
\* Single-runner variant (oscillation-layer.js): waitForOllama, startServer, /ask
\* ---------------------------------------------------------------------
Prompts == {"", "why is the sky blue"}

\* process.exit(1) from waitForOllama
OllamaExit(reason) ==
  /\ oPhase' = "exited"
  /\ oPc' = "done"
  /\ oExit' = reason
  /\ oRes' = NoHealthRes
  /\ UNCHANGED <<oCalls, oNext, oReqPc, oResp, oReply>>

\* the health fetch throws: catch block
OllamaFetchFail ==
  /\ oPhase = "startup" /\ oPc = "fetch"
  /\ OllamaExit("unreachable")
  /\ UNCHANGED <<phase, probeVars, configVars, gateVars, poolVars>>

\* the health fetch answers: a non-ok answer throws into the catch block
OllamaFetchRespond ==
  /\ oPhase = "startup" /\ oPc = "fetch"
  /\ \E ok \in BOOLEAN, b \in HealthBodies :
       IF ~ok
       THEN OllamaExit("unreachable")
       ELSE /\ oPc' = "json"
            /\ oRes' = [ok |-> TRUE, parse |-> b.parse, data |-> b.data]
            /\ UNCHANGED <<oPhase, oCalls, oExit, oNext, oReqPc, oResp, oReply>>
  /\ UNCHANGED <<phase, probeVars, configVars, gateVars, poolVars>>

\* res.json() settles: an unreadable body or a body without data (models.forEach throws)
\* ends in the catch block; otherwise the model is found, or it is not and the process exits
OllamaJsonDone ==
  /\ oPhase = "startup" /\ oPc = "json"
  /\ IF oRes.parse # "list"
     THEN OllamaExit("unreachable")
     ELSE IF MODEL_NAME \in oRes.data
     THEN /\ oPhase' = "listening"
          /\ oPc' = "done"
          /\ oRes' = NoHealthRes
          /\ UNCHANGED <<oCalls, oExit, oNext, oReqPc, oResp, oReply>>
     ELSE OllamaExit("nomodel")
  /\ UNCHANGED <<phase, probeVars, configVars, gateVars, poolVars>>

\* app.post("/ask") up to its awaited fetch
OllamaAsk(prompt) ==
  /\ oPhase = "listening"
  /\ oNext <= MaxReq
  /\ oNext' = oNext + 1
  /\ IF prompt = ""
     THEN /\ oReqPc' = [oReqPc EXCEPT ![oNext] = "done"]
          /\ oReply' = [oReply EXCEPT ![oNext] = 400]
     ELSE /\ oReqPc' = [oReqPc EXCEPT ![oNext] = "fetch"]
          /\ UNCHANGED oReply
  /\ UNCHANGED <<oPhase, oPc, oRes, oCalls, oExit, oResp>>
  /\ UNCHANGED <<phase, probeVars, configVars, gateVars, poolVars>>

\* the completion fetch throws: 500
OllamaAskFetchFail(r) ==
  /\ oReqPc[r] = "fetch"
  /\ oReqPc' = [oReqPc EXCEPT ![r] = "done"]
  /\ oReply' = [oReply EXCEPT ![r] = 500]
  /\ UNCHANGED <<oPhase, oPc, oRes, oCalls, oExit, oNext, oResp>>
  /\ UNCHANGED <<phase, probeVars, configVars, gateVars, poolVars>>

\* Ollama answers the completion call
OllamaAskFetchRespond(r) ==
  /\ oReqPc[r] = "fetch"
  /\ \E status \in Statuses, body \in Bodies :
       oResp' = [oResp EXCEPT ![r] = [status |-> status, body |-> body]]
  /\ oReqPc' = [oReqPc EXCEPT ![r] = "json"]
  /\ UNCHANGED <<oPhase, oPc, oRes, oCalls, oExit, oNext, oReply>>
  /\ UNCHANGED <<phase, probeVars, configVars, gateVars, poolVars>>

\* response.json() settles: the data is sent with res.json (status 200), or the read throws: 500
OllamaAskJsonDone(r) ==
  /\ oReqPc[r] = "json"
  /\ \E readable \in BOOLEAN :
       oReply' = [oReply EXCEPT ![r] = IF readable THEN 200 ELSE 500]
  /\ oReqPc' = [oReqPc EXCEPT ![r] = "done"]
  /\ oResp' = [oResp EXCEPT ![r] = NoResp]
  /\ UNCHANGED <<oPhase, oPc, oRes, oCalls, oExit, oNext>>
  /\ UNCHANGED <<phase, probeVars, configVars, gateVars, poolVars>>

OllamaNext ==
  \/ OllamaFetchFail
  \/ OllamaFetchRespond
  \/ OllamaJsonDone
  \/ \E prompt \in Prompts : OllamaAsk(prompt)
  \/ \E r \in Req : OllamaAskFetchFail(r)
  \/ \E r \in Req : OllamaAskFetchRespond(r)
  \/ \E r \in Req : OllamaAskJsonDone(r)

OllamaSpec == Init /\ [][OllamaNext]_vars

\* ---------------------------------------------------------------------
\* Properties
\* ---------------------------------------------------------------------
Settled(r) == resolves[r] + rejects[r]

\* the error's message ends with the decimal rendering of the status
CarriesStatus(res, status) ==
  \E j \in 1..Len(res.message) :
     SubSeq(res.message, j, Len(res.message)) = Digits(status)

\* the error's message or data contains the body
CarriesBody(res, body) ==
  \/ res.data = body
  \/ \E j \in 1..Len(res.message) : res.message[j] = body

\* C1: every runner has at most one sendToRunner call in flight, and no sendToRunner call
\* is started on a runner whose busy flag is already true.
C1_MutualExclusion ==
  /\ \A k \in RUNNERS : Cardinality(InFlight(k)) <= 1
  /\ ~startedOnBusy

\* every runner carries a call, one of them handed over from the queue, and more work waits
C1_Witness ==
  /\ \A k \in RUNNERS : Cardinality(InFlight(k)) = 1
  /\ \E r \in Req : path[r] = "queued" /\ reqPc[r] \in InFlightPcs
  /\ requestQueue # <<>>

\* C2: the queue never holds more than MAX_QUEUE_SIZE entries, and a submission arriving
\* while all runners are busy and the queue holds MAX_QUEUE_SIZE entries fails in the same
\* step with the queue-full error, without being enqueued.
C2_BoundedBacklog ==
  /\ [](Len(requestQueue) <= MAX_QUEUE_SIZE)
  /\ [][(/\ phase = "serving"
         /\ nextReq <= MaxReq
         /\ nextReq' = nextReq + 1
         /\ \A k \in RUNNERS : busy[k]
         /\ Len(requestQueue) >= MAX_QUEUE_SIZE)
        => (/\ reqPc'[nextReq] = "returned"
            /\ result'[nextReq] = QueueFullError
            /\ requestQueue' = requestQueue)]_vars

\* a submission was refused while the queue was full at a capacity of at least one
C2_Witness ==
  /\ MAX_QUEUE_SIZE >= 1
  /\ Len(requestQueue) = MAX_QUEUE_SIZE
  /\ \E r \in Req : reqPc[r] = "returned" /\ result[r] = QueueFullError

\* C3: under FairSpec (every started runner call completes), every accepted submission,
\* dispatched directly or enqueued, eventually has its promise settled, and no request
\* stays in the queue forever.
C3_NoLoss ==
  \A r \in Req :
    (path[r] \in {"direct", "queued"}) ~> (Settled(r) = 1 /\ reqPc[r] # "queued")

\* a request that waited in the queue has been settled
C3_Witness ==
  \E r \in Req : path[r] = "queued" /\ Settled(r) = 1

\* C4: the queue holds requests in arrival order, and of two queued requests the one
\* enqueued later is never dispatched before the one enqueued earlier.
C4_Fifo ==
  /\ \A m, n \in 1..Len(requestQueue) : m < n => requestQueue[m] < requestQueue[n]
  /\ \A a, b \in Req :
       (a < b /\ path[a] = "queued" /\ path[b] = "queued" /\ sent[b] > 0) => sent[a] > 0

\* two requests waited in the queue together; the earlier one has been dispatched, the later not yet
C4_Witness ==
  \E a, b \in Req :
    /\ a < b /\ path[a] = "queued" /\ path[b] = "queued"
    /\ sent[a] = 1 /\ reqPc[b] = "queued"

\* C5: whenever the queue is non-empty, every runner is busy.
C5_QueuedImpliesAllBusy ==
  requestQueue # <<>> => \A k \in RUNNERS : busy[k]

\* a call has completed and handed its runner to a queued request while more requests wait
C5_Witness ==
  /\ requestQueue # <<>>
  /\ \E r \in Req : path[r] = "queued" /\ reqPc[r] \in InFlightPcs
  /\ \E r \in Req : reqPc[r] \in {"returned", "resolved", "rejected"} /\ path[r] = "direct"

\* C6: every accepted request is handed to sendToRunner at most once, is in the queue at
\* most once and never again once sent, and its caller's promise is settled at most once,
\* exactly once when the request is finished, never both resolved and rejected.
C6_ExactlyOnce ==
  \A r \in Req :
    /\ sent[r] <= 1
    /\ Cardinality({m \in 1..Len(requestQueue) : requestQueue[m] = r}) <= 1
    /\ (sent[r] > 0 => \A m \in 1..Len(requestQueue) : requestQueue[m] # r)
    /\ (reqPc[r] \in InFlightPcs => sent[r] = 1 /\ reqRunner[r] \in RUNNERS)
    /\ Settled(r) <= 1
    /\ (reqPc[r] = "resolved" => resolves[r] = 1 /\ rejects[r] = 0)
    /\ (reqPc[r] = "rejected" => resolves[r] = 0 /\ rejects[r] = 1)
    /\ (reqPc[r] \notin {"resolved", "rejected"} => Settled(r) = 0)

\* a directly dispatched and a queued request have both been settled
C6_Witness ==
  \E a, b \in Req :
    /\ path[a] = "direct" /\ Settled(a) = 1
    /\ path[b] = "queued" /\ Settled(b) = 1 /\ sent[b] = 1

\* C7: when a runner call ends in failure, the runner is afterwards either idle (and the
\* queue was empty) or busy with exactly the request that headed the queue.
C7_FailureReleases ==
  [][\A r \in Req :
       (reqPc[r] \in InFlightPcs /\ reqPc'[r] = "returned" /\ result'[r].kind = "error")
       => \/ /\ requestQueue = <<>>
             /\ ~busy'[reqRunner[r]]
             /\ \A q \in Req : ~(reqPc'[q] \in InFlightPcs /\ reqRunner'[q] = reqRunner[r])
          \/ /\ requestQueue # <<>>
             /\ busy'[reqRunner[r]]
             /\ \A q \in Req : (reqPc'[q] \in InFlightPcs /\ reqRunner'[q] = reqRunner[r])
                                 <=> q = Head(requestQueue)]_vars

\* a call has just failed on a non-success status and every runner is idle
C7_Witness ==
  /\ \A k \in RUNNERS : ~busy[k]
  /\ \E r \in Req : /\ reqPc[r] = "returned"
                    /\ result[r].kind = "error"
                    /\ result[r] \notin {QueueFullError, TransportError, BodyError}

\* C8 as stated: when the runner answers with a non-success status, the error of the
\* request carries the runner's status and the runner's response body.
C8_Original ==
  [][\A r \in Req :
       (reqPc[r] = "text" /\ reqPc'[r] = "returned")
       => /\ CarriesStatus(result'[r], resp[r].status)
          /\ CarriesBody(result'[r], resp[r].body)]_vars

\* C8 amended: when the runner answers with a non-success status, the request fails with
\* an error that never carries the response body; it carries the runner's status, unless
\* reading the body failed, in which case it is the read error.
C8_StatusOnly ==
  [][\A r \in Req :
       (reqPc[r] = "text" /\ reqPc'[r] = "returned")
       => /\ result'[r].kind = "error"
          /\ ~CarriesBody(result'[r], resp[r].body)
          /\ \/ CarriesStatus(result'[r], resp[r].status)
             \/ result'[r] = BodyError]_vars

\* a request has failed with the error that reports status 500
C8_Witness ==
  \E r \in Req :
    /\ reqPc[r] = "returned"
    /\ result[r].kind = "error"
    /\ result[r].message = <<"OrdeXa-AI runner returned ", "5", "0", "0">>

\* C9: waitForRunner issues at most RETRIES health calls, and every health call but the
\* first is issued after a sleep of DELAY_MS since the previous one.
C9_BoundedAndPaced ==
  /\ healthCalls <= RETRIES
  /\ (phase = "startup" /\ probePc = "fetch" /\ i > 0) => gapMs = DELAY_MS

\* C10: submissions are accepted only once waitForRunner has returned true for every
\* configured runner; a runner that exhausts its retries ends the process, and then no
\* request has been or will be dispatched.
C10_ReadinessGates ==
  /\ phase = "serving" => passed = RUNNERS
  /\ (nextReq > 1 \/ \E r \in Req : sent[r] > 0 \/ reqPc[r] # "new")
       => (phase = "serving" /\ passed = RUNNERS)
  /\ phase = "startup" => (i < RETRIES /\ probeRunner \notin passed)
  /\ phase = "exited" => (i = RETRIES /\ passed # RUNNERS)

\* the second runner exhausted its retries after the first had passed
C10_Witness ==
  phase = "exited" /\ passed # {} /\ healthCalls = RETRIES

\* C11: waitForRunner returns true only from the attempt whose health response had a
\* success status and a model list with an entry whose id equals MODEL_NAME.
C11_ReadyOnlyOnExactModel ==
  [][(probeRunner \notin passed /\ probeRunner \in passed')
     => /\ probePc = "json"
        /\ healthRes.ok
        /\ healthRes.parse = "list"
        /\ \E m \in healthRes.data : m = MODEL_NAME]_vars

\* a runner has been reported ready
C11_Witness ==
  1 \in passed /\ phase = "startup"

\* C12: a runner is busy exactly when it has one sendToRunner call in flight, and once no
\* request is queued or in flight every runner is idle and the queue is empty.
C12_BusyIffInFlight ==
  /\ \A k \in RUNNERS : busy[k] <=> Cardinality(InFlight(k)) = 1
  /\ \A k \in RUNNERS : Cardinality(InFlight(k)) <= 1
  /\ (\A r \in Req : reqPc[r] \notin InFlightPcs \cup {"queued"})
       => (requestQueue = <<>> /\ \A k \in RUNNERS : ~busy[k])

\* scenario R1, R2, R3 on one runner with capacity one, all three finished
C12_Witness ==
  /\ RUNNERS = {1} /\ MAX_QUEUE_SIZE = 1
  /\ path[1] = "direct" /\ path[2] = "queued" /\ path[3] = "refused"
  /\ \A r \in 1..3 : Settled(r) = 1
  /\ ~busy[1] /\ requestQueue = <<>>

\* C13: a submission that arrives while some runner is idle is sent at once to a runner
\* that was idle and that no other in-flight request holds, and the queue is unchanged.
C13_DirectWhenIdle ==
  [][(nextReq' = nextReq + 1 /\ \E k \in RUNNERS : ~busy[k])
     => /\ reqPc'[nextReq] = "fetch"
        /\ requestQueue' = requestQueue
        /\ reqRunner'[nextReq] \in RUNNERS
        /\ ~busy[reqRunner'[nextReq]]
        /\ busy'[reqRunner'[nextReq]]
        /\ \A q \in Req \ {nextReq} :
             reqPc'[q] \in InFlightPcs => reqRunner'[q] # reqRunner'[nextReq]]_vars

\* two submissions arrived with no completion in between and hold the two runners
C13_Witness ==
  /\ RUNNERS = {1, 2} /\ nextReq = 3
  /\ reqPc[1] = "fetch" /\ reqPc[2] = "fetch"
  /\ reqRunner[1] # reqRunner[2]
  /\ requestQueue = <<>>

\* C14: when a runner call ends while the queue is non-empty, the same step removes the
\* head of the queue and starts its call on that same runner, which is busy afterwards.
C14_AtomicHandoff ==
  [][\A r \in Req :
       (reqPc[r] \in InFlightPcs /\ reqPc'[r] = "returned" /\ requestQueue # <<>>)
       => /\ requestQueue' = Tail(requestQueue)
          /\ reqPc'[Head(requestQueue)] = "fetch"
          /\ reqRunner'[Head(requestQueue)] = reqRunner[r]
          /\ busy'[reqRunner[r]]
          /\ busy' = busy]_vars

\* the second runner has handed itself to a queued request while the first is still busy
C14_Witness ==
  \E r \in Req :
    /\ path[r] = "queued" /\ reqPc[r] \in InFlightPcs /\ reqRunner[r] = 2
    /\ busy[1]

\* C15: a failing runner call settles only its own request: every other queued or
\* in-flight request stays queued or in flight (the head of the queue may be started),
\* no other promise is touched, and a request whose call has ended is never sent again.
C15_FailureIsRequestScoped ==
  [][\A r \in Req :
       /\ (reqPc[r] \in InFlightPcs /\ reqPc'[r] = "returned" /\ result'[r].kind = "error")
          => \A q \in Req \ {r} :
               /\ result'[q] = result[q]
               /\ resolves'[q] = resolves[q] /\ rejects'[q] = rejects[q]
               /\ resp'[q] = resp[q]
               /\ reqPc[q] \in InFlightPcs => (reqPc'[q] = reqPc[q] /\ reqRunner'[q] = reqRunner[q])
               /\ reqPc[q] = "queued"
                    => \/ reqPc'[q] = "queued"
                             /\ \E m \in 1..Len(requestQueue') : requestQueue'[m] = q
                       \/ q = Head(requestQueue) /\ reqPc'[q] = "fetch"
       /\ (reqPc[r] \in {"returned", "resolved", "rejected"})
          => (reqPc'[r] \in {"returned", "resolved", "rejected"} /\ sent'[r] = sent[r])]_vars

\* a call has failed while another call is in flight and a request waits in the queue
C15_Witness ==
  \E r, q, w \in Req :
    /\ reqPc[r] = "returned" /\ result[r].kind = "error" /\ sent[r] = 1
    /\ reqPc[q] \in InFlightPcs
    /\ reqPc[w] = "queued"

\* C16: a directly dispatched submission gets the first idle runner in registration
\* order: every runner before the chosen one was busy.
C16_FirstIdleInOrder ==
  [][(nextReq' = nextReq + 1 /\ path'[nextReq] = "direct")
     => /\ ~busy[reqRunner'[nextReq]]
        /\ \A j \in RUNNERS : j < reqRunner'[nextReq] => busy[j]]_vars

\* the first runner was claimed again by a direct submission while the second is in use
C16_Witness ==
  /\ path[3] = "direct" /\ reqRunner[3] = 1 /\ reqPc[3] = "fetch"
  /\ reqRunner[2] = 2 /\ reqPc[2] \in InFlightPcs

\* C17: a submission is refused with the queue-full error exactly when every runner is
\* busy and the queue holds MAX_QUEUE_SIZE entries or more, and the refusal leaves the
\* queue, the busy flags and every other request as they were.
C17_RefusalChangesNothing ==
  [][(nextReq' = nextReq + 1)
     => /\ (path'[nextReq] = "refused")
             <=> ((\A k \in RUNNERS : busy[k]) /\ Len(requestQueue) >= MAX_QUEUE_SIZE)
        /\ (path'[nextReq] = "refused")
             => /\ requestQueue' = requestQueue
                /\ busy' = busy
                /\ reqRunner' = reqRunner
                /\ sent' = sent
                /\ resp' = resp
                /\ \A q \in Req \ {nextReq} : reqPc'[q] = reqPc[q] /\ result'[q] = result[q]]_vars

\* the third submission has been refused while the first is in flight and the second waits
C17_Witness ==
  /\ requestQueue = <<2>>
  /\ reqPc[1] \in InFlightPcs /\ busy[reqRunner[1]]
  /\ path[3] = "refused" /\ reqPc[3] = "returned"

\* C18: for every phone and every configured limit, the calls of checkRateLimit that
\* returned true since the phone's windowStart was set never exceed MAX_REQUESTS_PER_WINDOW.
C18_RateLimitBound ==
  \A p \in Phones : granted[p] <= MAX_REQUESTS_PER_WINDOW

\* C19 as stated: a request reaches processRequest only when the rate check, then the
\* authorization, then the validation have passed, and a request answered 429, 401 or 400
\* changes neither the busy flags nor the queue while its rate-limit entry has been charged.
C19_Original ==
  [][(nextReq' = nextReq + 1)
     => /\ lastAsk'.status = 401 => ~lastAsk'.authorized
        /\ lastAsk'.status = 400 => (lastAsk'.authorized /\ ~lastAsk'.valid)
        /\ lastAsk'.status = 0 => (lastAsk'.authorized /\ lastAsk'.valid)
        /\ (path'[nextReq] \in {"direct", "queued", "refused"}) <=> lastAsk'.status = 0
        /\ lastAsk'.status \in {429, 401, 400}
             => /\ busy' = busy
                /\ requestQueue' = requestQueue
                /\ rateLimits' # rateLimits]_vars

\* C19 amended: as above, but the rate-limit entry has been charged exactly when the rate
\* check passed (answers 401, 400 and admitted requests); a request answered 429 leaves
\* its entry as it was.
C19_GatesInOrder ==
  [][(nextReq' = nextReq + 1)
     => /\ lastAsk'.status \in {429, 401, 400, 0}
        /\ lastAsk'.status = 401 => ~lastAsk'.authorized
        /\ lastAsk'.status = 400 => (lastAsk'.authorized /\ ~lastAsk'.valid)
        /\ lastAsk'.status = 0 => (lastAsk'.authorized /\ lastAsk'.valid)
        /\ (path'[nextReq] \in {"direct", "queued", "refused"}) <=> lastAsk'.status = 0
        /\ lastAsk'.status \in {429, 401, 400}
             => /\ busy' = busy
                /\ requestQueue' = requestQueue
                /\ reqRunner' = reqRunner
                /\ sent' = sent
        /\ lastAsk'.status = 429 => rateLimits' = rateLimits
        /\ lastAsk'.status # 429 => rateLimits' # rateLimits]_vars

\* an authorized request with an invalid body was answered 400 while the runner is busy
\* and a request waits in the queue
C19_Witness ==
  /\ lastAsk.status = 400
  /\ busy[1] /\ requestQueue # <<>>
  /\ reqPc[3] = "gated"

\* C20: waitForOllama gives up on an unreachable or failing health endpoint only after
\* RETRIES health calls.
C20_RetriesBeforeGivingUp ==
  (oPhase = "exited" /\ oExit = "unreachable") => oCalls = RETRIES

====
